---- MODULE Spec2Model ----
(***************************************************************************)
(* Model of the phase-screen synthesis engine of losito                    *)
(* (src/losito/lib_tecscreen.py): NestedSpectra, FftScreen, SplineTiles,   *)
(* SlidingPixels, SlidingWindows and NestedScreen/MegaScreen, and of its   *)
(* driver comoving_tecscreen with get_PP_PD and screen_grid_comoving.      *)
(*                                                                         *)
(* Numbers.  Floating-point quantities are fixed-point integers:           *)
(*   - trigonometric weights and angles are in units of 1/Scale;           *)
(*   - ribbon coordinates (x, dx, xoffset) are in units of 1/Den pixel.    *)
(* Arrays produced by the FFT and by the spline interpolator are kept      *)
(* symbolically: a tile is identified by the noise draw, the filter and    *)
(* the part (real/imaginary) it was computed from, a frame by the buffer   *)
(* and the coordinates it was interpolated at.                             *)
(***************************************************************************)
EXTENDS Integers, Sequences, FiniteSets, TLC

VARIABLES
    rng,     \* state of numpy's process-wide random generator
    inst,    \* the NestedScreen generator instances of the process
    out,     \* the frames each instance has yielded so far
    st,      \* a SplineTiles generator fed with an arbitrary tile sequence
    sp,      \* a SlidingPixels generator fed with an arbitrary tile sequence
    ns,      \* an application of NestedSpectra to an arbitrary spectrum
    drv      \* a run of the driver comoving_tecscreen

vars == <<rng, inst, out, st, sp, ns, drv>>

Idle == [pc |-> "idle"]

(***************************************************************************)
(* Bounds of the model.                                                    *)
(***************************************************************************)
MaxFreq == 4          \* spectra are tabulated at frequencies 0..MaxFreq
MaxPsd == 3           \* spectral densities are drawn from 0..MaxPsd
MaxTileHeight == 8    \* tile heights are drawn from 1..MaxTileHeight
MaxSegments == 3      \* pulls made from a stand-alone SplineTiles
MaxYields == 5        \* pulls made from a stand-alone SlidingPixels
MaxCoord == 3         \* pixel coordinates x are drawn from 0..MaxCoord
MaxFrames == 3        \* pulls made from each NestedScreen instance
MaxSeed == 2          \* seeds are drawn from 0..MaxSeed
MaxTimes == 3         \* runs of the driver have 2..MaxTimes timestamps

(***************************************************************************)
(* Fixed-point arithmetic.                                                 *)
(***************************************************************************)
Scale == 10000        \* 1.0 in fixed point
HalfPi == 15708       \* pi/2 in units of 1/Scale
PiNum == 355          \* pi ~ PiNum / PiDen
PiDen == 113
Den == 2              \* ribbon coordinates are in units of 1/Den pixel

Min(a, b) == IF a < b THEN a ELSE b
Max(a, b) == IF a > b THEN a ELSE b

SetMin(S) == CHOOSE m \in S : \A e \in S : m <= e
SetMax(S) == CHOOSE m \in S : \A e \in S : m >= e

\* numpy.ceil(a / b) for b > 0
CeilDiv(a, b) == -((-a) \div b)

\* numpy.cos on [0, pi/2], angle and result in units of 1/Scale
CosFP(a) ==
    LET x2 == (a * a) \div Scale
        t1 == x2 \div 2
        t2 == (t1 * x2) \div (12 * Scale)
        t3 == (t2 * x2) \div (30 * Scale)
        t4 == (t3 * x2) \div (56 * Scale)
    IN  Scale - t1 + t2 - t3 + t4

\* numpy.sin on [0, pi/2], angle and result in units of 1/Scale
SinFP(a) ==
    LET x2 == (a * a) \div Scale
        t1 == a
        t2 == (t1 * x2) \div (6 * Scale)
        t3 == (t2 * x2) \div (20 * Scale)
        t4 == (t3 * x2) \div (42 * Scale)
        t5 == (t4 * x2) \div (72 * Scale)
    IN  t1 - t2 + t3 - t4 + t5

\* numpy.linspace(0, pi/2, n, endpoint=False)[i]
Linspace(i, n) == (i * HalfPi) \div n

(***************************************************************************)
(* NestedSpectra(spectrum, f0, eps).  A spectrum is a table over the       *)
(* frequencies 0..MaxFreq; the frequency unit is eps*f0, so that the       *)
(* central difference of the code reads the table at f0-1 and f0+1.        *)
(***************************************************************************)
Freqs == 0 .. MaxFreq
Spectra == [Freqs -> 0 .. MaxPsd]
Crossovers == 1 .. (MaxFreq - 1)

\* grad * (2 * f0 * eps): numerator of the central difference
GradNum(spectrum, f0) == spectrum[f0 + 1] - spectrum[f0 - 1]

\* c1 - 2 * grad * f0 / pi * cos(pi * f / (2 * f0)), in units of 1/Scale
Taper(spectrum, f0, f) ==
    spectrum[f0] * Scale
      - (GradNum(spectrum, f0) * f0 * CosFP(Linspace(f, f0)) * PiDen) \div PiNum

TaperOrNothing(spectrum, f0, f) ==
    IF f < f0 THEN Taper(spectrum, f0, f) ELSE 0

\* s1 = np.where(f < f0, taper, s), in units of 1/Scale
TaperOrSpectrum(spectrum, f0, f) ==
    IF f < f0 THEN Taper(spectrum, f0, f) ELSE spectrum[f] * Scale

OuterSpectrumNoClamp(spectrum, f0, f) == TaperOrSpectrum(spectrum, f0, f)

\* OuterSpectrum(f) = np.where(s1 < s, s1, s), in units of 1/Scale
OuterSpectrum(spectrum, f0, f) ==
    LET s  == spectrum[f] * Scale
        s1 == TaperOrSpectrum(spectrum, f0, f)
    IN  IF s1 < s THEN s1 ELSE s

InnerSpectrumOfTaper(spectrum, f0, f) ==
    spectrum[f] * Scale - TaperOrSpectrum(spectrum, f0, f)

\* InnerSpectrum(f) = spectrum(f) - OuterSpectrum(f), in units of 1/Scale
InnerSpectrum(spectrum, f0, f) ==
    spectrum[f] * Scale - OuterSpectrum(spectrum, f0, f)

\* return InnerSpectrum, OuterSpectrum
NestedSpectra(spectrum, f0) ==
    << [f \in Freqs |-> InnerSpectrum(spectrum, f0, f)],
       [f \in Freqs |-> OuterSpectrum(spectrum, f0, f)] >>

(***************************************************************************)
(* numpy's process-wide random generator.  A state is the seed it was last *)
(* seeded with and the number of draws made since; Entropy stands for the  *)
(* seed the interpreter took from the operating system at start-up.        *)
(***************************************************************************)
Entropy == -1

RngStart == [seed |-> Entropy, n |-> 0]

\* random.seed(int(seed))
RandomSeed(seed) == [seed |-> seed, n |-> 0]

\* the state after one draw (random.normal, np.random.randint)
RandomAdvance(r) == [seed |-> r.seed, n |-> r.n + 1]

\* the sample random.normal(size=...) returns in state r
RandomNormal(r) == <<r.seed, r.n>>

(***************************************************************************)
(* Tile generators.  ListTiles is an arbitrary tile sequence handed to     *)
(* SplineTiles or SlidingPixels as their tileGenerator argument: tile k    *)
(* has the label vals[k] (0 beyond the end of vals) and height h.          *)
(* FftScreen is the generator of lines 401-425.                            *)
(***************************************************************************)
ListTiles(h, vals) == [kind |-> "list", h |-> h, vals |-> vals, pos |-> 1]

ListTilesNext(g) ==
    [g    |-> [g EXCEPT !.pos = g.pos + 1],
     tile |-> [id  |-> g.pos,
               val |-> IF g.pos <= Len(g.vals) THEN g.vals[g.pos] ELSE 0,
               h   |-> g.h]]

\* FftScreen(spectrum, shape, pixelSize, seed): created, not yet started
FftScreen(spectrum, shape, pixelSize, seed) ==
    [kind |-> "fft", pc |-> "start", spectrum |-> spectrum, shape |-> shape,
     pixelSize |-> pixelSize, seed |-> seed, sample |-> <<>>]

\* result = fft.fft2(filter * (sample[0] + 1j * sample[1])); result.real / .imag
FftTile(g, sample, part) ==
    [id  |-> [spectrum |-> g.spectrum, pixelSize |-> g.pixelSize,
              sample |-> sample, part |-> part],
     val |-> 0,
     h   |-> g.shape]

\* if seed == 0: seed = np.random.randint(0, 10000)
FftSeed(seed, pick) == IF seed = 0 THEN pick ELSE seed

\* One next() of FftScreen in random state r; pick is what randint returns.
\* (The draw randint makes is forgotten by the random.seed that follows.)
FftScreenNext(g, r, pick) ==
    LET Draw(g1, r1, s) ==
            [g |-> [g1 EXCEPT !.pc = "real", !.sample = s],
             rng |-> RandomAdvance(r1), tile |-> FftTile(g1, s, "real")]
        Seeded(seed) ==
            Draw([g EXCEPT !.seed = seed], RandomSeed(seed),
                 RandomNormal(RandomSeed(seed)))
    IN  IF g.pc = "start"
        THEN Seeded(FftSeed(g.seed, pick))
        ELSE IF g.pc = "real"
        THEN [g |-> [g EXCEPT !.pc = "imag"], rng |-> r,
              tile |-> FftTile(g, g.sample, "imag")]
        ELSE Draw(g, r, RandomNormal(r))

\* next(tileGenerator)
TileNext(g, r, pick) ==
    LET List(n) == [g |-> n.g, rng |-> r, tile |-> n.tile]
    IN  IF g.kind = "list" THEN List(ListTilesNext(g)) ELSE FftScreenNext(g, r, pick)

(***************************************************************************)
(* SplineTiles(tileGenerator), lines 428-441.                              *)
(***************************************************************************)
CsplineSwapped(i, n0) == SinFP(Linspace(i, n0))

\* cspline[i] = np.cos(np.linspace(0, pi / 2, n0, endpoint=False))[i]
Cspline(i, n0) == CosFP(Linspace(i, n0))

\* sspline[i] = np.sin(np.linspace(0, pi / 2, n0, endpoint=False))[i]
Sspline(i, n0) == SinFP(Linspace(i, n0))

HalfHeightNotChecked(h) == TRUE

\* assert n0 * 2 == previous.shape[0], with n0 = previous.shape[0] // 2
HalfHeightOk(h) == (h \div 2) * 2 = h

\* previous[n0:] * cspline[:, np.newaxis] + current[:n0] * sspline[:, np.newaxis]
\* id: the tiles blended (previous, current); row i of the result: the row of
\* previous and its weight, the row of current and its weight (rows are
\* numbered from 0)
Blend(previous, current, n0) ==
    [id   |-> <<previous.id, current.id>>,
     val  |-> <<previous.val, current.val>>,
     h    |-> n0,
     rows |-> [i \in 1 .. n0 |->
                 [prev |-> n0 + i - 1, pw |-> Cspline(i - 1, n0),
                  cur  |-> i - 1,      cw |-> Sspline(i - 1, n0)]]]

PreviousNotUpdated(previous, current) == previous

\* previous = current
Carry(previous, current) == current

SplineTiles(tileGenerator) ==
    [kind |-> "spline", pc |-> "start", src |-> tileGenerator,
     previous |-> <<>>, current |-> <<>>, n0 |-> 0,
     pulled |-> 0, yielded |-> 0]

\* One next() of SplineTiles: from the point it is suspended at to its next
\* yield, or to the AssertionError.  pulled and yielded count the tiles it
\* has taken from tileGenerator and the segments it has yielded.
SplineTilesNext(s, r, pick) ==
    LET Second(a, b) ==
            [g |-> [s EXCEPT !.pc = "yielded", !.src = b.g,
                             !.previous = a.tile, !.current = b.tile,
                             !.n0 = a.tile.h \div 2, !.pulled = 2, !.yielded = 1],
             rng |-> b.rng, ok |-> TRUE,
             tile |-> Blend(a.tile, b.tile, a.tile.h \div 2)]
        First(a) ==
            IF ~HalfHeightOk(a.tile.h)
            THEN [g |-> [s EXCEPT !.pc = "failed", !.src = a.g,
                                  !.previous = a.tile, !.n0 = a.tile.h \div 2,
                                  !.pulled = 1],
                  rng |-> a.rng, ok |-> FALSE, tile |-> <<>>]
            ELSE Second(a, TileNext(a.g, a.rng, pick))
        Later(prev, b) ==
            [g |-> [s EXCEPT !.src = b.g, !.previous = prev,
                             !.current = b.tile, !.pulled = s.pulled + 1,
                             !.yielded = s.yielded + 1],
             rng |-> b.rng, ok |-> TRUE, tile |-> Blend(prev, b.tile, s.n0)]
    IN  IF s.pc = "start"
        THEN First(TileNext(s.src, r, pick))
        ELSE IF s.pc = "yielded"
        THEN Later(Carry(s.previous, s.current), TileNext(s.src, r, pick))
        ELSE [g |-> s, rng |-> r, ok |-> FALSE, tile |-> <<>>]

(***************************************************************************)
(* A SplineTiles generator pulled MaxSegments times on an arbitrary tile   *)
(* sequence of arbitrary height.  segs records what it yielded.            *)
(***************************************************************************)
TileLabels == [1 .. (MaxSegments + 1) -> 0 .. 1]

InitStitch ==
    /\ \E h \in 1 .. MaxTileHeight, vals \in TileLabels :
         st = [pc |-> "run", gen |-> SplineTiles(ListTiles(h, vals)),
               h |-> h, vals |-> vals, segs |-> <<>>]
    /\ rng = Idle /\ inst = Idle /\ out = Idle /\ sp = Idle /\ ns = Idle
    /\ drv = Idle

PullSegment ==
    /\ st.pc = "run"
    /\ st.gen.pc # "failed"
    /\ Len(st.segs) < MaxSegments
    /\ \E n \in {SplineTilesNext(st.gen, RngStart, 0)} :
         st' = [st EXCEPT !.gen = n.g,
                          !.segs = IF n.ok THEN Append(@, n.tile) ELSE @]
    /\ UNCHANGED <<rng, inst, out, sp, ns, drv>>

NextStitch == PullSegment

SpecStitch == InitStitch /\ [][NextStitch]_vars

(***************************************************************************)
(* SlidingPixels(tileGenerator, x, y, dx), lines 452-485.  x is the set of *)
(* the x coordinates, dx the step, both in units of 1/Den pixel.  The y    *)
(* coordinates do not enter the buffer management and are left out.        *)
(***************************************************************************)
\* next(tileGenerator) for the generator SlidingPixels is given
SourceNext(g, r, pick) ==
    LET Tile(n) == [g |-> n.g, rng |-> n.rng, ok |-> TRUE, tile |-> n.tile]
    IN  IF g.kind = "spline"
        THEN SplineTilesNext(g, r, pick)
        ELSE Tile(TileNext(g, r, pick))

NumTileWithoutStep(xmin, xmax, dx, xtile) == CeilDiv(xmax - xmin, xtile)

\* numTile = int(np.ceil((xmax - xmin + dx) / xtile))
NumTile(xmin, xmax, dx, xtile) == CeilDiv(xmax - xmin + dx, xtile)

StepNotChecked(xtile, dx) == TRUE

\* assert xtile >= dx
StepOk(xtile, dx) == xtile >= dx

\* if xoffset + xmin > xtile:
SlideDue(xoffset, xmin, xtile) == xoffset + xmin > xtile

SlideKeepsOldest(tiles, fresh) == Append(tiles, fresh)

\* tiles.pop(0); tiles.append(next(tileGenerator))
SlideTiles(tiles, fresh) == Append(Tail(tiles), fresh)

RewindToStart(xoffset, xmin, xtile) == -xmin

\* xoffset -= xtile
Rewind(xoffset, xmin, xtile) == xoffset - xtile

\* interpolator(x + xoffset, ynew, grid=False) with
\* interpolator = GridInterpolator(np.concatenate(tiles)): the buffer the
\* spline is built over and the coordinates it is evaluated at
Interpolate(tiles, x, xoffset) ==
    [buf |-> [i \in 1 .. Len(tiles) |-> [id |-> tiles[i].id, val |-> tiles[i].val]],
     at  |-> {xj + xoffset : xj \in x}]

SlidingPixels(tileGenerator, x, dx) ==
    [kind |-> "pixels", pc |-> "start", src |-> tileGenerator, x |-> x, dx |-> dx,
     tiles |-> <<>>, xtile |-> 0, xmin |-> 0, xoffset |-> 0,
     pulled |-> 0, evicted |-> 0, yielded |-> 0]

\* for i in range(numTile): tiles.append(next(tileGenerator))
\* run[k] is the state after k passes of the loop
AppendTiles(g, r, pick, tiles, n) ==
    LET Pass(b, a) ==
            IF ~a.ok
            THEN [g |-> a.g, rng |-> a.rng, ok |-> FALSE, tiles |-> b.tiles]
            ELSE [g |-> a.g, rng |-> a.rng, ok |-> TRUE,
                  tiles |-> Append(b.tiles, a.tile)]
        Step(b) == IF ~b.ok THEN b ELSE Pass(b, SourceNext(b.g, b.rng, pick))
        run[k \in 0 .. Max(n, 0)] ==
            IF k = 0
            THEN [g |-> g, rng |-> r, ok |-> TRUE, tiles |-> tiles]
            ELSE Step(run[k - 1])
    IN  run[Max(n, 0)]

\* One next() of SlidingPixels: from the point it is suspended at to its next
\* yield, or to the exception that ends it (the AssertionError of line 469,
\* or the ValueError np.amin raises for an empty x).  pulled, evicted and yielded
\* count the tiles taken from tileGenerator, the tiles popped and the arrays
\* yielded.
SlidingPixelsNext(p, r, pick) ==
    LET xmin == SetMin(p.x)
        xmax == SetMax(p.x)
        Filled(g, b) ==
            IF ~b.ok
            THEN [g |-> [g EXCEPT !.pc = "failed", !.src = b.g,
                                  !.tiles = b.tiles, !.pulled = Len(b.tiles)],
                  rng |-> b.rng, ok |-> FALSE, frame |-> <<>>]
            ELSE [g |-> [g EXCEPT !.pc = "yielded", !.src = b.g,
                                  !.tiles = b.tiles, !.pulled = Len(b.tiles),
                                  !.yielded = 1],
                  rng |-> b.rng, ok |-> TRUE,
                  frame |-> Interpolate(b.tiles, p.x, -xmin)]
        Sized(a, xtile) ==
            IF ~StepOk(xtile, p.dx) \/ p.x = {}
            THEN [g |-> [p EXCEPT !.pc = "failed", !.src = a.g, !.pulled = 1],
                  rng |-> a.rng, ok |-> FALSE, frame |-> <<>>]
            ELSE Filled([p EXCEPT !.xtile = xtile, !.xmin = xmin,
                                  !.xoffset = -xmin],
                        AppendTiles(a.g, a.rng, pick, <<a.tile>>,
                                    NumTile(xmin, xmax, p.dx, xtile)))
        Opened(a) ==
            IF ~a.ok
            THEN [g |-> [p EXCEPT !.pc = "failed", !.src = a.g],
                  rng |-> a.rng, ok |-> FALSE, frame |-> <<>>]
            ELSE Sized(a, a.tile.h * Den)
        Slid(a, o) ==
            IF ~a.ok
            THEN [g |-> [p EXCEPT !.pc = "failed", !.src = a.g,
                                  !.tiles = Tail(p.tiles), !.xoffset = o,
                                  !.evicted = p.evicted + 1],
                  rng |-> a.rng, ok |-> FALSE, frame |-> <<>>]
            ELSE [g |-> [p EXCEPT !.src = a.g,
                                  !.tiles = SlideTiles(p.tiles, a.tile),
                                  !.xoffset = o,
                                  !.evicted = p.evicted + 1,
                                  !.pulled = p.pulled + 1,
                                  !.yielded = p.yielded + 1],
                  rng |-> a.rng, ok |-> TRUE,
                  frame |-> Interpolate(SlideTiles(p.tiles, a.tile), p.x, o)]
        Advanced(xo) ==
            IF SlideDue(xo, p.xmin, p.xtile)
            THEN Slid(SourceNext(p.src, r, pick), Rewind(xo, p.xmin, p.xtile))
            ELSE [g |-> [p EXCEPT !.xoffset = xo, !.yielded = p.yielded + 1],
                  rng |-> r, ok |-> TRUE,
                  frame |-> Interpolate(p.tiles, p.x, xo)]
    IN  IF p.pc = "start"
        THEN Opened(SourceNext(p.src, r, pick))
        ELSE IF p.pc = "yielded"
        THEN Advanced(p.xoffset + p.dx)
        ELSE [g |-> p, rng |-> r, ok |-> FALSE, frame |-> <<>>]

(***************************************************************************)
(* A SlidingPixels generator pulled MaxYields times on an arbitrary tile   *)
(* sequence, for arbitrary coordinates and steps.  arrays records what it  *)
(* yielded.                                                                *)
(***************************************************************************)
XGrid == (-Den) .. ((MaxCoord - 1) * Den)
XSets == {{a, b} : a \in XGrid, b \in XGrid}
Steps == 0 .. (MaxTileHeight * Den + 1)

InitSampler ==
    /\ \E h \in 1 .. MaxTileHeight, x \in XSets, dx \in Steps :
         sp = [pc |-> "run", gen |-> SlidingPixels(ListTiles(h, <<>>), x, dx),
               h |-> h, arrays |-> <<>>]
    /\ rng = Idle /\ inst = Idle /\ out = Idle /\ st = Idle /\ ns = Idle
    /\ drv = Idle

PullArray ==
    /\ sp.pc = "run"
    /\ sp.gen.pc # "failed"
    /\ Len(sp.arrays) < MaxYields
    /\ \E n \in {SlidingPixelsNext(sp.gen, RngStart, 0)} :
         sp' = [sp EXCEPT !.gen = n.g,
                          !.arrays = IF n.ok THEN Append(@, n.frame) ELSE @]
    /\ UNCHANGED <<rng, inst, out, st, ns, drv>>

NextSampler == PullArray

SpecSampler == InitSampler /\ [][NextSampler]_vars

(***************************************************************************)
(* PixelCoords and SlidingWindows, lines 488-532, for theta = 0 (the only  *)
(* angle the driver passes): the x coordinates of a window are             *)
(* (origin + i) * pixelSize, i < shape[0].  pixelSize is the fraction      *)
(* psNum / psDen; coordinates are in units of 1/Den pixel.                 *)
(***************************************************************************)
PixelCoordsX(origin, shape, psNum, psDen) ==
    {((origin + i) * Den * psNum) \div psDen : i \in 0 .. (shape - 1)}

\* newshape = shape if numWindow == 1 else [numWindow] + list(shape)
NewShape(shape, origins) ==
    IF Len(origins) = 1 THEN <<shape>> ELSE <<Len(origins), shape>>

SlidingWindows(tileGenerator, shape, dx, origins, psNum, psDen) ==
    [kind |-> "windows",
     newshape |-> NewShape(shape, origins),
     pixels |-> SlidingPixels(
                    tileGenerator,
                    UNION {PixelCoordsX(origins[k], shape, psNum, psDen) :
                             k \in 1 .. Len(origins)},
                    dx)]

\* for screen in SlidingPixels(...): yield np.reshape(screen, newshape)
SlidingWindowsNext(w, r, pick) ==
    LET Reshape(n) ==
            [g |-> [w EXCEPT !.pixels = n.g], rng |-> n.rng, ok |-> n.ok,
             frame |-> IF n.ok
                       THEN [buf |-> n.frame.buf, at |-> n.frame.at,
                             shape |-> w.newshape]
                       ELSE <<>>]
    IN  Reshape(SlidingPixelsNext(w.pixels, r, pick))

(***************************************************************************)
(* NestedScreen / MegaScreen, lines 552-614.  The parameters p are         *)
(*   spectrum, shape (windowShape[0]), dx, origins (the x components of    *)
(*   windowOrigins), nfftWoofer, nfftTweeter, numIter, seed,               *)
(*   twoOverlap (2 * frequencyOverlap) and support (fractionalSupport as   *)
(*   a fraction <<numerator, denominator>>);                               *)
(* pixelSize = 1.0, theta = 0.0 and debug = False as in the driver's call. *)
(* Frequencies are in units of 1/FreqDen cycle per pixel.                  *)
(***************************************************************************)
None == -1
FreqDen == 8

\* wooferPixelSize = nfftTweeter / (2 * frequencyOverlap), as a fraction
WooferPixelNum(p) == p.nfftTweeter
WooferPixelDen(p) == p.twoOverlap

\* f0 = 1 / (2 * wooferPixelSize) * fractionalSupport, in units of 1/FreqDen
CrossoverFrequency(p) ==
    (WooferPixelDen(p) * FreqDen * p.support[1])
        \div (2 * WooferPixelNum(p) * p.support[2])

WooferGetsOuter(pair) == pair[2]

\* wooferSpectrum, tweeterSpectrum = NestedSpectra(spectrum, f0)
WooferSpectrum(pair) == pair[1]

TweeterSpectrum(pair) == pair[2]

\* if seed == 0: seed = np.random.randint(0, 10000)
NestedSeed(seed, pick) == IF seed = 0 THEN pick ELSE seed

\* innerWindows = SlidingWindows(SplineTiles(FftScreen(wooferSpectrum, ...)))
InnerWindows(p, seed) ==
    SlidingWindows(
        SplineTiles(FftScreen(
            WooferSpectrum(NestedSpectra(p.spectrum, CrossoverFrequency(p))),
            p.nfftWoofer,
            <<WooferPixelNum(p), WooferPixelDen(p)>>,
            seed)),
        p.shape,
        (p.dx * WooferPixelDen(p)) \div WooferPixelNum(p),
        p.origins,
        WooferPixelDen(p), WooferPixelNum(p))

\* outerWindows = [SlidingWindows(SplineTiles(FftScreen(tweeterSpectrum, ...,
\*                 seed = seed + 1)), ..., origins=[origin]) for origin in ...]
OuterWindows(p, seed) ==
    [k \in 1 .. Len(p.origins) |->
        SlidingWindows(
            SplineTiles(FftScreen(
                TweeterSpectrum(NestedSpectra(p.spectrum, CrossoverFrequency(p))),
                p.nfftTweeter,
                <<1, 1>>,
                seed + 1)),
            p.shape,
            p.dx,
            <<p.origins[k]>>,
            1, 1)]

NestedScreen(p) ==
    [pc |-> "start", p |-> p, seed |-> p.seed, iter |-> 0,
     innerWindows |-> <<>>, outerWindows |-> <<>>]

NextFirstOnly(ws, r, pick) ==
    LET One(n) ==
            [g |-> [ws EXCEPT ![1] = n.g], rng |-> n.rng, ok |-> n.ok,
             frames |-> [k \in 1 .. Len(ws) |-> n.frame]]
    IN  One(SlidingWindowsNext(ws[1], r, pick))

\* [next(o) for o in outerWindows]
\* run[k] is the state after the first k windows have been pulled
NextEach(ws, r, pick) ==
    LET Pulled(b, k, n) ==
            [g |-> [b.g EXCEPT ![k] = n.g], rng |-> n.rng, ok |-> n.ok,
             frames |-> IF n.ok THEN Append(b.frames, n.frame) ELSE b.frames]
        Step(b, k) ==
            IF ~b.ok THEN b ELSE Pulled(b, k, SlidingWindowsNext(b.g[k], b.rng, pick))
        run[k \in 0 .. Len(ws)] ==
            IF k = 0
            THEN [g |-> ws, rng |-> r, ok |-> TRUE, frames |-> <<>>]
            ELSE Step(run[k - 1], k)
    IN  run[Len(ws)]

MoreFramesInclusive(numIter, iter) == numIter = None \/ iter <= numIter

\* while numIter is None or iter < numIter:
MoreFrames(numIter, iter) == numIter = None \/ iter < numIter

\* One next() of NestedScreen in random state r: from the point it is
\* suspended at to its next yield, its return or the exception that ends
\* it.  pick.ns and pick.fft are what np.random.randint returns in
\* NestedScreen and in FftScreen.
NestedScreenNext(g, r, pick) ==
    LET Summed(g0, a, b) ==
            IF ~b.ok
            THEN [g |-> [g0 EXCEPT !.pc = "failed", !.iter = g.iter + 1,
                                   !.innerWindows = a.g, !.outerWindows = b.g],
                  rng |-> b.rng, ok |-> FALSE, frame |-> <<>>]
            ELSE [g |-> [g0 EXCEPT !.pc = "yielded", !.iter = g.iter + 1,
                                   !.innerWindows = a.g, !.outerWindows = b.g],
                  rng |-> b.rng, ok |-> TRUE,
                  frame |-> [inner |-> a.frame, outer |-> b.frames]]
        Inner(g0, a) ==
            IF ~a.ok
            THEN [g |-> [g0 EXCEPT !.pc = "failed", !.iter = g.iter + 1,
                                   !.innerWindows = a.g],
                  rng |-> a.rng, ok |-> FALSE, frame |-> <<>>]
            ELSE Summed(g0, a, NextEach(g0.outerWindows, a.rng, pick.fft))
        Loop(g0, r0) ==
            IF ~MoreFrames(g.p.numIter, g.iter)
            THEN [g |-> [g0 EXCEPT !.pc = "done"], rng |-> r0, ok |-> FALSE,
                  frame |-> <<>>]
            ELSE Inner(g0, SlidingWindowsNext(g0.innerWindows, r0, pick.fft))
        Begin(seed) ==
            Loop([g EXCEPT !.seed = seed,
                           !.innerWindows = InnerWindows(g.p, seed),
                           !.outerWindows = OuterWindows(g.p, seed)],
                 IF g.seed = 0 THEN RandomAdvance(r) ELSE r)
    IN  IF g.pc \in {"done", "failed"}
        THEN [g |-> g, rng |-> r, ok |-> FALSE, frame |-> <<>>]
        ELSE IF g.pc = "start"
        THEN Begin(NestedSeed(g.seed, pick.ns))
        ELSE Loop(g, r)

(***************************************************************************)
(* The process: two NestedScreen generators created with the same          *)
(* parameters and pulled in any order, MaxFrames times each.  out[i] is    *)
(* the sequence of frames instance i has yielded.                          *)
(***************************************************************************)
Instances == {1, 2}
\* np.random.randint(0, 10000) returns 0 or some other seed
RandInts == {0, MaxSeed}

\* the spectrum argument: tables that fall linearly from MaxPsd
FallingSpectra == {[f \in Freqs |-> Max(MaxPsd - k * f, 0)] : k \in 1 .. 2}

Parameters ==
    [spectrum : FallingSpectra, shape : {1, 2}, dx : {Den, 2 * Den},
     origins : {<<0>>, <<0, 1>>}, nfftWoofer : {2}, nfftTweeter : {4, 8},
     numIter : {None, 0, 2}, seed : 0 .. MaxSeed,
     twoOverlap : {2}, support : {<<1, 1>>}]

\* what np.random.randint may return in the calls a pull of g makes: one in
\* NestedScreen when its seed is 0, one more in the woofer's FftScreen when
\* that call returned 0
Picks(g) ==
    IF g.pc = "start" /\ g.seed = 0
    THEN {[ns |-> a, fft |-> b] : a \in RandInts, b \in RandInts} \
           {[ns |-> a, fft |-> b] : a \in RandInts \ {0}, b \in RandInts \ {0}}
    ELSE {[ns |-> 0, fft |-> 0]}

Init ==
    /\ rng = RngStart
    /\ \E p \in Parameters : inst = [i \in Instances |-> NestedScreen(p)]
    /\ out = [i \in Instances |-> <<>>]
    /\ st = Idle /\ sp = Idle /\ ns = Idle /\ drv = Idle

Pull(i) ==
    /\ inst[i].pc \in {"start", "yielded"}
    /\ Len(out[i]) < MaxFrames
    /\ \E pick \in Picks(inst[i]) :
         \E n \in {NestedScreenNext(inst[i], rng, pick)} :
             /\ inst' = [inst EXCEPT ![i] = n.g]
             /\ rng' = n.rng
             /\ out' = [out EXCEPT ![i] = IF n.ok THEN Append(@, n.frame) ELSE @]
    /\ UNCHANGED <<st, sp, ns, drv>>

Next == \E i \in Instances : Pull(i)

Spec == Init /\ [][Next]_vars

(***************************************************************************)
(* Applying NestedSpectra to an arbitrary spectrum and crossover.          *)
(***************************************************************************)
InitSplit ==
    /\ ns \in [pc : {"args"}, spectrum : Spectra, f0 : Crossovers]
    /\ rng = Idle /\ inst = Idle /\ out = Idle /\ st = Idle /\ sp = Idle
    /\ drv = Idle

Split ==
    /\ ns.pc = "args"
    /\ \E r \in {NestedSpectra(ns.spectrum, ns.f0)} :
         ns' = [pc |-> "split", spectrum |-> ns.spectrum, f0 |-> ns.f0,
                inner |-> r[1], outer |-> r[2]]
    /\ UNCHANGED <<rng, inst, out, st, sp, drv>>

NextSplit == Split

SpecSplit == InitSplit /\ [][NextSplit]_vars

(***************************************************************************)
(* PiercePointSolver: get_PP_PD_per_source and get_PP_PD, lines 117-201.   *)
(* Lengths are in units of 10 km and vectors are triples <<x, y, z>>.  A   *)
(* pierce direction PD is a unit vector with rational components, held as  *)
(* the integer vector UnitDen * PD; a pierce point PP is held as the       *)
(* integer vector PPDen * PP.  A float is a record [nan, v]: nan says      *)
(* that the value is not a number (v is then meaningless).                 *)
(***************************************************************************)
R_earth == 636
UnitDen == 5
PPDen == UnitDen * UnitDen
SqrtBits == 16

Abs(a) == IF a < 0 THEN -a ELSE a

\* a @ b, (a * b).sum(-1)
Dot(a, b) == a[1] * b[1] + a[2] * b[2] + a[3] * b[3]

\* numpy.sqrt of n >= 0, rounded down: the bits of the root, highest first
Isqrt(n) ==
    LET Bit(r, b) == IF r + b <= n \div (r + b) THEN r + b ELSE r
        root[k \in 0 .. SqrtBits] ==
            IF k = 0 THEN 0 ELSE Bit(root[k - 1], 2 ^ (SqrtBits - k))
    IN  root[SqrtBits]

NaN == [nan |-> TRUE, v |-> 0]
Num(v) == [nan |-> FALSE, v |-> v]

\* UnitDen^2 * ((PD @ S)**2 + (R_earth + hIon)**2 - (S**2).sum(0))
Discriminant(S, PD, hIon) ==
    Dot(PD, S) * Dot(PD, S)
      + UnitDen * UnitDen * ((R_earth + hIon) * (R_earth + hIon) - Dot(S, S))

\* alpha = -(PD @ S) + np.sqrt(...), times UnitDen; the square root of a
\* negative number is nan (numpy warns and goes on)
Alpha(S, PD, hIon) ==
    IF Discriminant(S, PD, hIon) < 0
    THEN NaN
    ELSE Num(-Dot(PD, S) + Isqrt(Discriminant(S, PD, hIon)))

\* PP = S.T[np.newaxis,:,:] + alpha[:,:,np.newaxis] * PD[:,np.newaxis,:]
PiercePoint(S, PD, hIon) ==
    LET At(a) ==
            IF a.nan
            THEN NaN
            ELSE Num([c \in 1 .. 3 |-> PPDen * S[c] + a.v * PD[c]])
    IN  At(Alpha(S, PD, hIon))

\* SkyCoord(radec[0], radec[1], frame=coord.FK5, unit=(u.deg, u.deg)) raises
\* ValueError for a declination outside [-90, 90] degrees
ValidDec(dec) == -90 <= dec /\ dec <= 90

\* get_PP_PD_per_source((sp, radec, itrs, hIon)); stations is sp.  A
\* direction is the record [dec, itrs]: the declination of radec and what
\* direction.transform_to(itrs) gives in x, y, z at each timestamp (times
\* UnitDen).  ok = FALSE stands for the exception the call ends with.
get_PP_PD_per_source(stations, direction, hIon) ==
    IF ~ValidDec(direction.dec)
    THEN [ok |-> FALSE, PP |-> <<>>, PD |-> <<>>]
    ELSE [ok |-> TRUE,
          PP |-> [t \in 1 .. Len(direction.itrs) |->
                    [m \in 1 .. Len(stations) |->
                        PiercePoint(stations[m], direction.itrs[t], hIon)]],
          PD |-> direction.itrs]

\* pool = mp.Pool(processes = ncpu); pool.map(get_PP_PD_per_source, map_args)
\* has handed one task per direction to the workers: none has completed
PoolMap(directions) ==
    [left |-> 1 .. Len(directions), success |-> TRUE,
     value |-> [d \in 1 .. Len(directions) |-> <<>>], order |-> <<>>]

SetInCompletionOrder(pool, d, result) ==
    [left |-> pool.left \ {d}, success |-> pool.success,
     value |-> [pool.value EXCEPT ![Len(pool.order) + 1] = result],
     order |-> Append(pool.order, d)]

\* MapResult._set(d, (TRUE, result)) of multiprocessing.pool: the result of
\* task d goes to place d of the list, whatever completed before it
SetResult(pool, d, result) ==
    [left |-> pool.left \ {d}, success |-> pool.success,
     value |-> [pool.value EXCEPT ![d] = result],
     order |-> Append(pool.order, d)]

SetFailureDropped(pool, d) ==
    [left |-> pool.left \ {d}, success |-> pool.success,
     value |-> pool.value, order |-> Append(pool.order, d)]

\* MapResult._set(d, (FALSE, exception)): the map has failed, the results
\* are dropped and later results are not stored
SetFailure(pool, d) ==
    [left |-> pool.left \ {d}, success |-> FALSE,
     value |-> <<>>, order |-> Append(pool.order, d)]

\* the worker that runs task d hands its outcome to the pool
WorkerDone(pool, d, r) ==
    IF r.ok /\ pool.success THEN SetResult(pool, d, r)
    ELSE IF pool.success THEN SetFailure(pool, d)
    ELSE [pool EXCEPT !.left = @ \ {d}, !.order = Append(@, d)]

\* pool.map returns once every task has completed
MapReady(pool) == pool.left = {}

\* PP = np.array([u for (u,v) in PP_PD]).swapaxes(0,1).swapaxes(1,2):
\* PP[t][m][d] is the pierce point of station m in direction d at time t
StackPP(value, T, M) ==
    [t \in 1 .. T |-> [m \in 1 .. M |->
        [d \in 1 .. Len(value) |-> value[d].PP[t][m]]]]

\* PD = np.array([v for (u,v) in PP_PD]).swapaxes(0,1)
StackPD(value, T) ==
    [t \in 1 .. T |-> [d \in 1 .. Len(value) |-> value[d].PD[t]]]

(***************************************************************************)
(* geocentric_to_geodetic, lines 29-50, and the pierce angles and edges    *)
(* of comoving_tecscreen, lines 292-298.  Angles are in units of 1/Scale   *)
(* radian.                                                                 *)
(***************************************************************************)
\* numpy.arctan of q / Scale for 0 <= q <= Scale (to 0.004 radian)
AtanFP(q) ==
    (7854 * q) \div Scale + (2730 * ((q * (Scale - q)) \div Scale)) \div Scale

\* numpy.arctan2(y, x)
Atan2FP(y, x) ==
    LET Quadrant(a) ==
            IF x < 0 /\ y < 0 THEN a - 2 * HalfPi
            ELSE IF x < 0 THEN 2 * HalfPi - a
            ELSE IF y < 0 THEN -a
            ELSE a
    IN  IF x = 0 /\ y = 0 THEN 0
        ELSE IF Abs(y) <= Abs(x)
        THEN Quadrant(AtanFP((Abs(y) * Scale) \div Abs(x)))
        ELSE Quadrant(HalfPi - AtanFP((Abs(x) * Scale) \div Abs(y)))

\* numpy.arcsin(z / R) for R >= |z|: the angle of (sqrt(R^2 - z^2), z)
AsinFP(z, R) == Atan2FP(z, Isqrt(R * R - z * z))

\* R = np.linalg.norm(points, axis = -1); lon = np.arctan2(y, x);
\* lat = np.arcsin(z / R), for one point
Geodetic(point) ==
    LET Angles(R) ==
            Num([lon |-> Atan2FP(point.v[2], point.v[1]),
                 lat |-> AsinFP(point.v[3], R),
                 R   |-> R])
    IN  IF point.nan THEN NaN ELSE Angles(Isqrt(Dot(point.v, point.v)))

geocentric_to_geodetic(points) ==
    [t \in DOMAIN points |-> [m \in DOMAIN points[t] |->
        [d \in DOMAIN points[t][m] |-> Geodetic(points[t][m][d])]]]

\* (unit_vec(PP) * unit_vec(PD)).sum(-1) for one pierce point, in 1/Scale
CosPierce(point, direction) ==
    IF point.nan
    THEN NaN
    ELSE Num((Dot(point.v, direction) * Scale)
               \div (Isqrt(Dot(point.v, point.v))
                       * Isqrt(Dot(direction, direction))))

\* cos_pierce = (unit_vec(PP)*unit_vec(PD)[:,np.newaxis]).sum(-1)
CosPierceAll(PP, PD) ==
    [t \in DOMAIN PP |-> [m \in DOMAIN PP[t] |->
        [d \in DOMAIN PP[t][m] |-> CosPierce(PP[t][m][d], PD[t][d])]]]

\* the pierce points of one timestep, flattened
PointsOf(slice) ==
    {slice[m][d] : m \in DOMAIN slice, d \in 1 .. Len(slice[1])}

\* np.min / np.max over axis=(1,2) of one timestep: nan if a point is nan
EdgesOf(slice) ==
    IF \E q \in PointsOf(slice) : q.nan
    THEN [nan |-> TRUE, min_lon |-> 0, max_lon |-> 0,
          min_lat |-> 0, max_lat |-> 0]
    ELSE [nan |-> FALSE,
          min_lon |-> SetMin({q.v.lon : q \in PointsOf(slice)}),
          max_lon |-> SetMax({q.v.lon : q \in PointsOf(slice)}),
          min_lat |-> SetMin({q.v.lat : q \in PointsOf(slice)}),
          max_lat |-> SetMax({q.v.lat : q \in PointsOf(slice)})]

\* edges = np.array([np.min(PP_llr[..., 0], axis=(1,2)), ...]), by timestep
Edges(PP_llr) == [t \in DOMAIN PP_llr |-> EdgesOf(PP_llr[t])]

(***************************************************************************)
(* ComovingGridBuilder: screen_grid_comoving, lines 204-245.               *)
(***************************************************************************)
\* np.deg2rad(angRes / 3600) for angRes in arc seconds
Deg2Rad(angRes) == (angRes * PiNum * 10) \div (PiDen * 648)

\* numpy.tan on [0, pi/2)
TanFP(a) == (SinFP(a) * Scale) \div CosFP(a)

\* res_rad = np.arctan(np.tan(np.deg2rad(angRes / 3600) * hIon
\*                            / (R_earth + hIon)))
\* (the angle is below pi/2, where arctan undoes tan)
ResRad(angRes, hIon) == (Deg2Rad(angRes) * hIon) \div (R_earth + hIon)

\* res_lon = res_rad / np.cos(lat_center), lat_center the mean of max_lat
\* and min_lat
ResLon(e, res_rad) ==
    (res_rad * Scale) \div CosFP(Abs((e.max_lat + e.min_lat) \div 2))

\* what .astype(int) makes of np.ceil(nan): the most negative integer or 0,
\* by platform
NanCasts == {-(2 ^ 30), 0}

\* npixel_lat = np.ceil((max_lat - min_lat)/res_rad).astype(int)
NPixelLat(e, res_rad, cast) ==
    IF e.nan THEN cast ELSE CeilDiv(e.max_lat - e.min_lat, res_rad)

\* npixel_lon = np.ceil((max_lon - min_lon)/res_lon).astype(int)
NPixelLon(e, res_rad, cast) ==
    IF e.nan THEN cast ELSE CeilDiv(e.max_lon - e.min_lon, ResLon(e, res_rad))

\* numpy.linspace(lo, hi, n) for n >= 0
GridLinspace(lo, hi, n) ==
    [k \in 1 .. n |->
        IF k = 1 THEN lo
        ELSE IF k = n THEN hi
        ELSE lo + ((k - 1) * (hi - lo)) \div (n - 1)]

GridCountOwn(npixel, nmax) == npixel

\* the number of samples handed to np.linspace: np.max(npixel)
GridCount(npixel, nmax) == nmax

\* max_lat += mssng_px_lt * res_rad with mssng_px_lt = np.max(npixel) - npixel
Padded(hi, npixel, nmax, res) == hi + (nmax - npixel) * res

\* one row of np.linspace(min, max, np.max(npixel)).T
GridRow(nan, lo, hi, npixel, nmax, res) ==
    IF nan
    THEN [nan |-> TRUE, pts |-> [k \in 1 .. GridCount(npixel, nmax) |-> 0]]
    ELSE [nan |-> FALSE,
          pts |-> GridLinspace(lo, Padded(hi, npixel, nmax, res),
                               GridCount(npixel, nmax))]

\* cellsz = (max - min) / np.max(npixel): nan for 0 / 0
CellSize(nan, lo, hi, nmax) ==
    IF nan \/ nmax = 0 THEN NaN ELSE Num((hi - lo) \div nmax)

\* screen_grid_comoving(edges, angRes, hIon); cast is what the conversion
\* of a nan pixel count to int gives.  ok = FALSE stands for the ValueError
\* np.linspace raises for a negative number of samples.
screen_grid_comoving(edges, angRes, hIon, cast) ==
    LET res == ResRad(angRes, hIon)
        Build(nlat, nlon) ==
            IF nlat < 0 \/ nlon < 0
            THEN [ok |-> FALSE]
            ELSE [ok |-> TRUE,
                  grid_lon |-> [t \in DOMAIN edges |->
                      GridRow(edges[t].nan, edges[t].min_lon, edges[t].max_lon,
                              NPixelLon(edges[t], res, cast), nlon,
                              ResLon(edges[t], res))],
                  grid_lat |-> [t \in DOMAIN edges |->
                      GridRow(edges[t].nan, edges[t].min_lat, edges[t].max_lat,
                              NPixelLat(edges[t], res, cast), nlat, res)],
                  cellsz_lon |-> [t \in DOMAIN edges |->
                      CellSize(edges[t].nan, edges[t].min_lon,
                               Padded(edges[t].max_lon,
                                      NPixelLon(edges[t], res, cast), nlon,
                                      ResLon(edges[t], res)), nlon)],
                  cellsz_lat |-> [t \in DOMAIN edges |->
                      CellSize(edges[t].nan, edges[t].min_lat,
                               Padded(edges[t].max_lat,
                                      NPixelLat(edges[t], res, cast), nlat,
                                      res), nlat)]]
    IN  Build(SetMax({NPixelLat(edges[t], res, cast) : t \in DOMAIN edges}),
              SetMax({NPixelLon(edges[t], res, cast) : t \in DOMAIN edges}))

(***************************************************************************)
(* TecAssembler: comoving_tecscreen, lines 247-349, called with            *)
(* expfolder = None.  vIon is in m/s, times are MJD seconds, angRes is in  *)
(* arc seconds, maxvtec in TECU.                                           *)
(***************************************************************************)
\* metres per unit of length
Metres == 10000

\* numpy.sin on [-pi, 2 pi]
SinAny(a) ==
    IF a < 0 THEN -SinFP(Min(Abs(a), 2 * HalfPi - Abs(a)))
    ELSE IF a <= HalfPi THEN SinFP(a)
    ELSE IF a <= 2 * HalfPi THEN SinFP(2 * HalfPi - a)
    ELSE IF a <= 3 * HalfPi THEN -SinFP(a - 2 * HalfPi)
    ELSE -SinFP(4 * HalfPi - a)

\* daytime_from_mjds(t): hour + minute / 60 of the day, in minutes
daytime_from_mjds(t) == (t % 86400) \div 60

\* daytime_tec_modulation(t) = 0.45 * np.sin((hours - 9)*np.pi/12.) + 0.55,
\* in units of 1/Scale
daytime_tec_modulation(t) ==
    (45 * SinAny(((daytime_from_mjds(t) - 540) * PiNum * 125) \div (PiDen * 9)))
        \div 100 + 5500

\* dx = vIon /(hIon*np.tan(np.deg2rad(angRes/3600)));
\* dx *= (times[-1] - times[0])/len(times), in units of 1/Den pixel
PixelsPerStep(vIon, hIon, angRes, times) ==
    (vIon * (times[Len(times)] - times[1]) * Den)
        \div (((hIon * Metres) \div Scale) * TanFP(Deg2Rad(angRes)) * Len(times))

SquareFFTsizeRoundedDown(nlon, nlat) == (Max(nlon, nlat) \div 2) * 2

\* squareFFTsize = (np.ceil(np.max([len(grid_lon[0]), len(grid_lat[0])])/2)*2)
SquareFFTsize(nlon, nlat) == CeilDiv(Max(nlon, nlat), 2) * 2

\* b ** n for an integer n >= 0
Power(b, n) ==
    LET pw[k \in 0 .. n] == IF k = 0 THEN 1 ELSE b * pw[k - 1]
    IN  pw[n]

\* VonKarmanSpectrum(f, r0, L0, alpha) =
\*     0.0229 * r0 ** (2.0 - alpha) * (f ** 2 + 1 / L0 ** 2) ** (-alpha / 2)
\* with the driver's r0 and L0, tabulated over the frequencies NestedSpectra
\* reads it at.  The frequency unit is 1 / L0 and alpha is an even integer,
\* so that the power is a whole one; nothing in the function or in its
\* callers looks at the value of alpha (or of L0) before computing with it.
VonKarmanSpectrum(alpha) ==
    [f \in (-1) .. Max(MaxFreq, 2 * FreqDen + 1) |->
        (MaxPsd * 32) \div Power(f * f + 1, alpha \div 2)]

\* MegaScreen(r0, L0, alpha, nfftTweeter=squareFFTsize, windowShape =
\*   [len(grid_lon[0]), len(grid_lat[0])], dx = dx, theta = 0, seed = seed,
\*   numIter = len(times)) with the defaults nfftWoofer=256,
\*   frequencyOverlap=4.0, fractionalSupport=1.0, windowOrigins=((0, 0),).
\* A window of nlon * nlat pixels has nlon x coordinates, or none if it has
\* no pixel.
MegaScreen(alpha, nlon, nlat, dx, seed, numIter) ==
    NestedScreen([spectrum |-> VonKarmanSpectrum(alpha),
                  shape |-> IF nlat = 0 THEN 0 ELSE nlon, dx |-> dx,
                  origins |-> <<0>>, nfftWoofer |-> 256,
                  nfftTweeter |-> SquareFFTsize(nlon, nlat),
                  numIter |-> numIter, seed |-> seed,
                  twoOverlap |-> 8, support |-> <<1, 1>>])

\* next(sc_gen).  For nfftTweeter = 0 the woofer pixel size is 0.0 and
\* dx / wooferPixelSize is inf or nan: the woofer's FftScreen yields a tile
\* and `assert xtile >= dx` of SlidingPixels fails (without asserts,
\* np.amin of the empty coordinate array raises ValueError).
MegaScreenNext(g, r, pick) ==
    IF g.p.nfftTweeter = 0 /\ g.pc = "start"
    THEN [g |-> [g EXCEPT !.pc = "failed", !.iter = 1,
                          !.seed = NestedSeed(g.seed, pick.ns)],
          rng |-> RandomAdvance(RandomSeed(
                      FftSeed(NestedSeed(g.seed, pick.ns), pick.fft))),
          ok |-> FALSE, frame |-> <<>>]
    ELSE NestedScreenNext(g, r, pick)

\* RectBivariateSpline(x, y, z) of scipy with the default degrees 3 raises
\* ValueError unless x and y are strictly increasing and have 4 points
Increasing(row) ==
    /\ ~row.nan
    /\ \A k \in 1 .. (Len(row.pts) - 1) : row.pts[k] < row.pts[k + 1]

SplineOk(x, y) ==
    /\ Increasing(x) /\ Len(x.pts) >= 4
    /\ Increasing(y) /\ Len(y.pts) >= 4

\* TEC = np.zeros((len(times), len(sp), len(directions))), one slice
ZeroSlice ==
    [written |-> FALSE, pull |-> 0, screen |-> <<>>, cos |-> <<>>,
     added |-> <<>>]

\* tecsc /= 56.32; sc_interp = RectBivariateSpline(grid_lon[i], grid_lat[i],
\* tecsc); TEC_ti = sc_interp.ev(PP_llr[i,:,:,0], PP_llr[i,:,:,1]);
\* TEC_ti/cos_pierce[i].  pull is the number of the pull that gave frame.
SlantSlice(frame, pull, x, y, at, cos) ==
    [written |-> TRUE, pull |-> pull,
     screen  |-> [frame |-> frame, x |-> x.pts, y |-> y.pts, at |-> at],
     cos     |-> cos,
     added   |-> <<>>]

SliceIndexFirst(i) == 1

\* TEC[i] = ... with i from enumerate(sc_gen); slices are numbered from 1
SliceIndex(i) == i + 1

AbsoluteAlways(maxvtec) == TRUE

\* if maxvtec > 0.:
AbsoluteRequested(maxvtec) == maxvtec > 0

\* daytime_variation_factor = daytime_tec_modulation(times);
\* for i, t in enumerate(times):
\*     TEC[i] += daytime_variation_factor[i]*maxvtec/cos_pierce[i]
DiurnalTerm(TEC, times, cos_pierce, maxvtec) ==
    IF AbsoluteRequested(maxvtec)
    THEN [i \in DOMAIN TEC |->
            [TEC[i] EXCEPT
                !.added = Append(@, [modulation |-> daytime_tec_modulation(times[i]),
                                     maxvtec |-> maxvtec,
                                     cos |-> cos_pierce[i]])]]
    ELSE TEC

(***************************************************************************)
(* A run of comoving_tecscreen.  The workers of the pool complete in any   *)
(* order; pool.map then returns or raises, the grids are built, the        *)
(* generator is created and the loop pulls its frames one by one; the pull *)
(* that finds the generator exhausted ends the loop, adds the diurnal term *)
(* and returns TEC.  frames records the frames the generator has yielded.  *)
(***************************************************************************)
Zenith == <<5, 0, 0>>
East == <<4, 3, 0>>
Along == <<0, 5, 0>>

\* stations on the ground, 800 km and 20 km apart, and one above the shell
Ground == <<636, 0, 0>>
Far == <<630, 80, 30>>
Near == <<636, 2, 1>>
High == <<700, 0, 0>>

StationLists == {<<Ground>>, <<Ground, Far>>, <<Ground, Near>>, <<Far, High>>}

Steady(u, T) == [dec |-> 30, itrs |-> [t \in 1 .. T |-> u]]
Turning(T) == [dec |-> 30, itrs |-> [t \in 1 .. T |-> IF t = 1 THEN Zenith ELSE East]]
OutOfRange(T) == [dec |-> 95, itrs |-> [t \in 1 .. T |-> Zenith]]

DirectionLists(T) ==
    {<<Steady(Zenith, T)>>, <<Turning(T)>>, <<Steady(Along, T)>>,
     <<Steady(Zenith, T), Steady(East, T)>>,
     <<Steady(Zenith, T), OutOfRange(T)>>,
     <<OutOfRange(T), Steady(East, T)>>}

\* the exponent alpha: 4 stands for the default 11/3 (alpha > 2), 2 for an
\* exponent at which the spectrum diverges (alpha <= 2)
Exponents == {2, 4}

\* timestamps one hour apart, from 09:00 or 15:00 of a day
TimeLists ==
    {[t \in 1 .. T |-> 86400 + h * 3600 + (t - 1) * 3600] :
        T \in 2 .. MaxTimes, h \in {9, 15}}

Runs ==
    [stations : StationLists, times : TimeLists, hIon : {25},
     vIon : {100, 1000}, alpha : Exponents, angRes : {54000},
     maxvtec : {0, 10}, seed : {0, 1}]

InitDriver ==
    /\ rng = RngStart
    /\ \E a \in Runs : \E directions \in DirectionLists(Len(a.times)) :
         drv = [pc |-> "solve", stations |-> a.stations,
                directions |-> directions, times |-> a.times,
                hIon |-> a.hIon, vIon |-> a.vIon, alpha |-> a.alpha,
                angRes |-> a.angRes,
                maxvtec |-> a.maxvtec, seed |-> a.seed,
                pool |-> PoolMap(directions),
                PP |-> <<>>, PD |-> <<>>, PP_llr |-> <<>>, cos_pierce |-> <<>>,
                grid_lon |-> <<>>, grid_lat |-> <<>>, gen |-> <<>>,
                TEC |-> <<>>, pulled |-> 0, frames |-> <<>>]
    /\ inst = Idle /\ out = Idle /\ st = Idle /\ sp = Idle /\ ns = Idle

\* a worker completes get_PP_PD_per_source for direction d
Solve(d) ==
    /\ drv.pc = "solve"
    /\ d \in drv.pool.left
    /\ drv' = [drv EXCEPT !.pool =
                 WorkerDone(@, d, get_PP_PD_per_source(
                                      drv.stations, drv.directions[d], drv.hIon))]
    /\ UNCHANGED <<rng, inst, out, st, sp, ns>>

\* lines 292-318, after get_PP_PD has returned PP and PD
Prepare(PP, PD, cast) ==
    LET Made(llr, grid) ==
            IF ~grid.ok
            THEN [drv EXCEPT !.pc = "failed", !.PP = PP, !.PD = PD,
                             !.PP_llr = llr,
                             !.cos_pierce = CosPierceAll(PP, PD)]
            ELSE [drv EXCEPT !.pc = "loop", !.PP = PP, !.PD = PD,
                             !.PP_llr = llr,
                             !.cos_pierce = CosPierceAll(PP, PD),
                             !.grid_lon = grid.grid_lon,
                             !.grid_lat = grid.grid_lat,
                             !.gen = MegaScreen(
                                 drv.alpha,
                                 Len(grid.grid_lon[1].pts),
                                 Len(grid.grid_lat[1].pts),
                                 PixelsPerStep(drv.vIon, drv.hIon, drv.angRes,
                                               drv.times),
                                 drv.seed, Len(drv.times)),
                             !.TEC = [i \in 1 .. Len(drv.times) |-> ZeroSlice]]
        Located(llr) ==
            Made(llr, screen_grid_comoving(Edges(llr), drv.angRes, drv.hIon, cast))
    IN  Located(geocentric_to_geodetic(PP))

\* pool.map returns the results or raises the exception of a worker that
\* failed; lines 198-201 and then lines 292-318 of the driver
Collect ==
    /\ drv.pc = "solve"
    /\ MapReady(drv.pool)
    /\ IF ~drv.pool.success
       THEN drv' = [drv EXCEPT !.pc = "failed"]
       ELSE \E cast \in NanCasts :
              drv' = Prepare(StackPP(drv.pool.value, Len(drv.times),
                                     Len(drv.stations)),
                             StackPD(drv.pool.value, Len(drv.times)),
                             cast)
    /\ UNCHANGED <<rng, inst, out, st, sp, ns>>

\* one pass of `for i, tecsc in enumerate(sc_gen)`, lines 321-330, or the
\* end of the loop with lines 333-349
Frame ==
    /\ drv.pc = "loop"
    /\ \E pick \in Picks(drv.gen) :
         \E n \in {MegaScreenNext(drv.gen, rng, pick)} :
             /\ rng' = n.rng
             /\ drv' =
                  IF n.ok
                  THEN IF /\ drv.pulled < Len(drv.times)
                          /\ SplineOk(drv.grid_lon[drv.pulled + 1],
                                      drv.grid_lat[drv.pulled + 1])
                       THEN [drv EXCEPT
                               !.gen = n.g,
                               !.pulled = @ + 1,
                               !.frames = Append(@, n.frame),
                               !.TEC[SliceIndex(drv.pulled)] =
                                   SlantSlice(n.frame, drv.pulled + 1,
                                              drv.grid_lon[drv.pulled + 1],
                                              drv.grid_lat[drv.pulled + 1],
                                              drv.PP_llr[drv.pulled + 1],
                                              drv.cos_pierce[drv.pulled + 1])]
                       ELSE [drv EXCEPT !.pc = "failed", !.gen = n.g,
                                        !.pulled = @ + 1,
                                        !.frames = Append(@, n.frame)]
                  ELSE IF n.g.pc = "done"
                  THEN [drv EXCEPT !.pc = "returned", !.gen = n.g,
                                   !.TEC = DiurnalTerm(drv.TEC, drv.times,
                                                       drv.cos_pierce,
                                                       drv.maxvtec)]
                  ELSE [drv EXCEPT !.pc = "failed", !.gen = n.g]
    /\ UNCHANGED <<inst, out, st, sp, ns>>

NextDriver ==
    \/ \E d \in 1 .. Len(drv.directions) : Solve(d)
    \/ Collect
    \/ Frame

SpecDriver == InitDriver /\ [][NextDriver]_vars

(***************************************************************************)
(* Properties of SlidingPixels (RibbonSampler), checked under SpecSampler. *)
(***************************************************************************)
SamplerYielded == sp.pc = "run" /\ sp.gen.pc = "yielded"

\* C2: for 0 < dx <= tileHeight, at every yield every queried coordinate
\* q = x_j + xoffset satisfies q >= 0 and q + dx <= tileHeight * (number of
\* buffered tiles); q >= 0 after a slide says that the tile just evicted
\* held no coordinate of the current query, nor (dx > 0) of a later one.
C2_Coverage ==
    (SamplerYielded /\ 0 < sp.gen.dx /\ sp.gen.dx <= sp.h * Den) =>
        \A xj \in sp.gen.x :
            LET q == xj + sp.gen.xoffset
            IN  /\ q >= 0
                /\ q + sp.gen.dx <= sp.h * Den * Len(sp.gen.tiles)

\* a yield after an eviction at which a query point plus one step reaches
\* exactly the end of the buffer
C2_Witness ==
    /\ SamplerYielded /\ 0 < sp.gen.dx /\ sp.gen.dx <= sp.h * Den
    /\ sp.gen.evicted >= 1
    /\ \E xj \in sp.gen.x :
         xj + sp.gen.xoffset + sp.gen.dx = sp.h * Den * Len(sp.gen.tiles)

\* C3: after any number of pulls the buffer holds exactly
\* 1 + ceil((max(x) - min(x) + dx) / tileHeight) tiles; they are the most
\* recently pulled tiles in stream order (each slide dropped the oldest and
\* appended the fresh one), and every tile pulled from the stream was
\* pulled for the initial buffer or for a slide.
C3_BoundedBuffer ==
    SamplerYielded =>
        /\ Len(sp.gen.tiles)
             = 1 + CeilDiv(SetMax(sp.gen.x) - SetMin(sp.gen.x) + sp.gen.dx,
                           sp.h * Den)
        /\ \A i \in 1 .. Len(sp.gen.tiles) :
             sp.gen.tiles[i].id = sp.gen.evicted + i
        /\ sp.gen.pulled = Len(sp.gen.tiles) + sp.gen.evicted
        /\ sp.gen.src.pos = sp.gen.pulled + 1

\* a yield after two slides
C3_Witness == SamplerYielded /\ sp.gen.evicted >= 2 /\ Len(sp.gen.tiles) >= 2

\* C4: for 0 <= dx <= tileHeight the k-th array yielded (k = 0, 1, ...) is
\* sampled at (tiles evicted) * tileHeight + xoffset + min(x) = k * dx.
C4_CumulativeShift ==
    (SamplerYielded /\ 0 <= sp.gen.dx /\ sp.gen.dx <= sp.h * Den) =>
        sp.gen.evicted * sp.h * Den + sp.gen.xoffset + SetMin(sp.gen.x)
            = (sp.gen.yielded - 1) * sp.gen.dx

\* the fourth array, after a slide, for a fractional step
C4_Witness ==
    /\ SamplerYielded /\ sp.gen.yielded >= 4 /\ sp.gen.evicted >= 1
    /\ sp.gen.dx % Den # 0

(***************************************************************************)
(* Properties of SplineTiles (RibbonStitcher), checked under SpecStitch.   *)
(* Input tile k is the k-th tile of the sequence (id k); rows are numbered *)
(* from 0.                                                                 *)
(***************************************************************************)
StitchHalf == st.h \div 2

\* C8: the k-th segment yielded is built from exactly the bottom half of
\* input tile k (rows N/2 .. N-1) and the top half of input tile k+1 (rows
\* 0 .. N/2-1) and has height N/2; when k segments have been yielded, k+1
\* tiles have been consumed and the tile kept for the next segment is
\* input tile k+1.
C8_OnePreviousTile ==
    (st.pc = "run" /\ st.gen.pc = "yielded") =>
        /\ Len(st.segs) = st.gen.yielded
        /\ st.gen.pulled = Len(st.segs) + 1
        /\ st.gen.src.pos = Len(st.segs) + 2
        /\ st.gen.current.id = Len(st.segs) + 1
        /\ \A k \in 1 .. Len(st.segs) :
             /\ 2 * Len(st.segs[k].rows) = st.h
             /\ st.segs[k].id = <<k, k + 1>>
             /\ st.segs[k].val = <<st.vals[k], st.vals[k + 1]>>
             /\ \A i \in 1 .. Len(st.segs[k].rows) :
                  /\ st.segs[k].rows[i].prev = StitchHalf + i - 1
                  /\ st.segs[k].rows[i].cur = i - 1

\* three segments of at least two rows have been yielded
C8_Witness ==
    /\ st.pc = "run" /\ st.gen.pc = "yielded"
    /\ Len(st.segs) >= 3 /\ StitchHalf >= 2

\* C9: in every segment the weights of row 0 are exactly 1 on the previous
\* tile and 0 on the current tile, the weight on the previous tile
\* decreases and the weight on the current tile increases down the N/2
\* rows, and the tile a segment fades into is the tile whose row N/2 is
\* row 0 of the next segment, directly below the last row faded in.
C9_SeamlessBlend ==
    (st.pc = "run" /\ st.gen.pc = "yielded") =>
        /\ \A k \in 1 .. Len(st.segs) :
             LET rows == st.segs[k].rows
             IN  /\ rows[1].pw = Scale
                 /\ rows[1].cw = 0
                 /\ \A i, j \in 1 .. Len(rows) :
                      i < j => rows[i].pw > rows[j].pw /\ rows[i].cw < rows[j].cw
        /\ \A k \in 1 .. (Len(st.segs) - 1) :
             LET last  == st.segs[k].rows[Len(st.segs[k].rows)]
                 first == st.segs[k + 1].rows[1]
             IN  /\ st.segs[k + 1].id[1] = st.segs[k].id[2]
                 /\ first.prev = last.cur + 1
                 /\ first.prev = StitchHalf

\* two consecutive segments of at least three rows
C9_Witness ==
    /\ st.pc = "run" /\ st.gen.pc = "yielded"
    /\ Len(st.segs) >= 2 /\ StitchHalf >= 3

\* C10: with tiles of odd height the generator fails at its first pull,
\* before any segment is yielded.
C10_OddHeightFails ==
    (st.pc = "run" /\ st.h % 2 = 1) =>
        /\ st.segs = <<>>
        /\ st.gen.yielded = 0
        /\ st.gen.pc \in {"start", "failed"}

\* the first pull on tiles of height 3 has failed
C10_Witness ==
    /\ st.pc = "run" /\ st.h = 3
    /\ st.gen.pc = "failed" /\ st.gen.pulled = 1 /\ st.segs = <<>>

(***************************************************************************)
(* Properties of NestedScreen (DualBandScreenGenerator), checked under     *)
(* Spec.                                                                   *)
(***************************************************************************)
\* C1: two fresh instances created with the same non-zero seed and the same
\* parameters yield identical frame sequences: frame k of one equals frame
\* k of the other for every k both have yielded.
C1_SameSeedSameFrames ==
    (inst[1].p.seed # 0 /\ inst[1].p = inst[2].p) =>
        \A k \in 1 .. Min(Len(out[1]), Len(out[2])) : out[1][k] = out[2][k]

\* the taper-capped, min-clamped spectrum: the elementwise minimum of the
\* raised-cosine taper (below f0; the spectrum itself from f0 on) and the
\* spectrum, in units of 1/Scale
ClampedTaper(spectrum, f0) ==
    [f \in Freqs |->
        Min(IF f < f0 THEN Taper(spectrum, f0, f) ELSE spectrum[f] * Scale,
            spectrum[f] * Scale)]

\* the spectrum less its taper-capped, min-clamped part
Remainder(spectrum, f0) ==
    [f \in Freqs |-> spectrum[f] * Scale - ClampedTaper(spectrum, f0)[f]]

WooferFft(i) == inst[i].innerWindows.pixels.src.src
TweeterFft(i, k) == inst[i].outerWindows[k].pixels.src.src
HasYielded(i) == inst[i].pc = "yielded"

\* C7 as stated: the woofer WindowExtractor is driven by the taper-capped,
\* min-clamped half and every tweeter WindowExtractor by the spectrum less
\* that half.
C7_WooferGetsClamped ==
    \A i \in Instances :
        HasYielded(i) =>
            LET f0 == CrossoverFrequency(inst[i].p)
            IN  /\ WooferFft(i).spectrum = ClampedTaper(inst[i].p.spectrum, f0)
                /\ \A k \in 1 .. Len(inst[i].outerWindows) :
                     TweeterFft(i, k).spectrum = Remainder(inst[i].p.spectrum, f0)

\* C7 amended: the woofer WindowExtractor (FFT size nfftWoofer, pixel size
\* wooferPixelSize) is driven by the spectrum less its taper-capped,
\* min-clamped half, which NestedSpectra returns first, and every tweeter
\* WindowExtractor (one per window origin, FFT size nfftTweeter, native
\* pixel size) by the taper-capped, min-clamped half.
C7_WooferGetsRemainder ==
    \A i \in Instances :
        HasYielded(i) =>
            LET f0 == CrossoverFrequency(inst[i].p)
            IN  /\ WooferFft(i).spectrum = Remainder(inst[i].p.spectrum, f0)
                /\ WooferFft(i).shape = inst[i].p.nfftWoofer
                /\ WooferFft(i).pixelSize = <<inst[i].p.nfftTweeter, inst[i].p.twoOverlap>>
                /\ Len(inst[i].outerWindows) = Len(inst[i].p.origins)
                /\ \A k \in 1 .. Len(inst[i].outerWindows) :
                     /\ TweeterFft(i, k).spectrum
                          = ClampedTaper(inst[i].p.spectrum, f0)
                     /\ TweeterFft(i, k).shape = inst[i].p.nfftTweeter
                     /\ TweeterFft(i, k).pixelSize = <<1, 1>>

\* an instance with two windows has yielded a frame and its two half
\* spectra differ
C7_Witness ==
    /\ HasYielded(1) /\ Len(out[1]) >= 1 /\ Len(inst[1].outerWindows) = 2
    /\ WooferFft(1).spectrum # TweeterFft(1, 1).spectrum

(***************************************************************************)
(* Properties of NestedSpectra (SpectrumSplitter), checked under           *)
(* SpecSplit.  ns.inner and ns.outer are the two functions returned,       *)
(* tabulated in units of 1/Scale.                                          *)
(***************************************************************************)
\* C5: for every frequency f, inner(f) + outer(f) = spectrum(f).
C5_HalvesSum ==
    ns.pc = "split" =>
        \A f \in Freqs : ns.inner[f] + ns.outer[f] = ns.spectrum[f] * Scale

\* the spectrum is split into two halves that are both non-zero somewhere
C5_Witness ==
    /\ ns.pc = "split"
    /\ \E f \in Freqs : ns.inner[f] > 0
    /\ \E f \in Freqs : ns.outer[f] > 0 /\ ns.outer[f] < ns.spectrum[f] * Scale

\* C6: for every frequency f, outer(f) is the minimum of the taper (the
\* raised cosine below f0, the spectrum itself from f0 on) and the
\* spectrum, so outer(f) <= spectrum(f) and inner(f) >= 0.
C6_OuterClamped ==
    ns.pc = "split" =>
        \A f \in Freqs :
            /\ ns.outer[f] = ClampedTaper(ns.spectrum, ns.f0)[f]
            /\ ns.outer[f] <= ns.spectrum[f] * Scale
            /\ ns.inner[f] >= 0

\* below f0 the taper lies under the spectrum at one frequency and over it
\* at another
C6_Witness ==
    /\ ns.pc = "split"
    /\ \E f \in 0 .. (ns.f0 - 1) :
         Taper(ns.spectrum, ns.f0, f) < ns.spectrum[f] * Scale
    /\ \E f \in 0 .. (ns.f0 - 1) :
         Taper(ns.spectrum, ns.f0, f) > ns.spectrum[f] * Scale


(***************************************************************************)
(* C12: a generator created with numIter = n, n >= 0, never yields more    *)
(* than n frames and has yielded exactly n when it terminates; a generator *)
(* created with numIter = None never terminates.                           *)
(***************************************************************************)
C12_ExactlyNumIter ==
    \A i \in Instances :
        /\ inst[i].p.numIter # None =>
               /\ Len(out[i]) <= inst[i].p.numIter
               /\ inst[i].iter <= inst[i].p.numIter
               /\ inst[i].pc = "done" => Len(out[i]) = inst[i].p.numIter
        /\ inst[i].p.numIter = None => inst[i].pc # "done"

\* both instances, created with numIter = 2, have yielded their two frames
\* and terminated at the pull after
C12_Witness ==
    \A i \in Instances :
        inst[i].p.numIter = 2 /\ inst[i].pc = "done" /\ Len(out[i]) = 2

(***************************************************************************)
(* Properties of the driver comoving_tecscreen, checked under SpecDriver.  *)
(***************************************************************************)
\* get_PP_PD has returned PP and PD
Solved == drv.PP # <<>>

\* screen_grid_comoving has returned the grids
GridsBuilt == drv.grid_lon # <<>>

Timesteps == 1 .. Len(drv.times)

C13_ByDirectionIndex ==
    Solved =>
        /\ drv.pool.left = {}
        /\ \A d \in 1 .. Len(drv.directions) : \A t \in Timesteps :
               /\ drv.PD[t][d] = drv.directions[d].itrs[t]
               /\ \A m \in 1 .. Len(drv.stations) :
                      drv.PP[t][m][d] =
                          PiercePoint(drv.stations[m],
                                      drv.directions[d].itrs[t], drv.hIon)

\* the second direction's worker completed before the first's, and the two
\* results differ
C13_Witness ==
    /\ Solved
    /\ drv.pool.order = <<2, 1>>
    /\ drv.PP[1][1][1] # drv.PP[1][1][2]

\* C14: if the worker of some direction fails, pool.map ends in failure
\* once all workers have completed, no PP or PD is ever returned and the
\* driver returns no TEC.
C14_WorkerFailureIsFatal ==
    (\E d \in 1 .. Len(drv.directions) : ~ValidDec(drv.directions[d].dec)) =>
        /\ ~Solved
        /\ drv.PD = <<>>
        /\ drv.pc \in {"solve", "failed"}
        /\ drv.pool.left = {} => ~drv.pool.success /\ drv.pool.value = <<>>

\* the worker of the first direction succeeded, the worker of the second
\* failed after it, and the run has ended in failure
C14_Witness ==
    /\ drv.pc = "failed"
    /\ drv.pool.order = <<1, 2>>
    /\ ValidDec(drv.directions[1].dec)
    /\ ~ValidDec(drv.directions[2].dec)

\* the ray from station S along PD has no intersection with the shell in
\* front of the station: negative discriminant or no positive root
Unreachable(S, PD, hIon) ==
    \/ Discriminant(S, PD, hIon) < 0
    \/ Alpha(S, PD, hIon).v <= 0

SomeUnreachable ==
    \E t \in Timesteps, m \in 1 .. Len(drv.stations),
       d \in 1 .. Len(drv.directions) :
        /\ ValidDec(drv.directions[d].dec)
        /\ Unreachable(drv.stations[m], drv.directions[d].itrs[t], drv.hIon)

\* C15: when the quadratic of some (time, station, direction) has a
\* negative discriminant or no positive root, get_PP_PD returns no pierce
\* points and the driver returns no TEC.
C15_UnreachableShellFails ==
    SomeUnreachable => ~Solved /\ drv.pc # "returned"

\* |PP|^2 is (R_earth + hIon)^2 to within the rounding of the square root
OnShell(point, hIon) ==
    /\ ~point.nan
    /\ Abs(Dot(point.v, point.v)
             - PPDen * PPDen * (R_earth + hIon) * (R_earth + hIon))
         <= 2 * PPDen * (R_earth + hIon) * UnitDen + UnitDen * UnitDen

\* C16: every pierce point get_PP_PD returns has magnitude R_earth + hIon.
C16_OnShell ==
    Solved =>
        \A t \in Timesteps, m \in 1 .. Len(drv.stations),
           d \in 1 .. Len(drv.directions) :
            OnShell(drv.PP[t][m][d], drv.hIon)

\* the pixel counts of screen_grid_comoving, by timestep
PixelsLon(t) ==
    NPixelLon(Edges(drv.PP_llr)[t], ResRad(drv.angRes, drv.hIon), 0)
PixelsLat(t) ==
    NPixelLat(Edges(drv.PP_llr)[t], ResRad(drv.angRes, drv.hIon), 0)

\* C17: every timestep's longitude grid has max_t(npixel_lon[t]) points and
\* every latitude grid has max_t(npixel_lat[t]) points.
C17_SamePixelCounts ==
    GridsBuilt =>
        \A t \in Timesteps :
            /\ Len(drv.grid_lon[t].pts) = SetMax({PixelsLon(u) : u \in Timesteps})
            /\ Len(drv.grid_lat[t].pts) = SetMax({PixelsLat(u) : u \in Timesteps})

\* the grids are built and some timestep needs fewer longitude pixels than
\* another: its grid has been padded
C17_Witness ==
    /\ GridsBuilt
    /\ \E t \in Timesteps, u \in Timesteps :
           /\ 2 <= PixelsLon(t) /\ PixelsLon(t) < PixelsLon(u)
           /\ Len(drv.grid_lon[t].pts) = PixelsLon(u)

\* C18: every pierce point of a timestep lies between the first and the
\* last point of that timestep's longitude grid and latitude grid.
C18_PointsInsideGrid ==
    GridsBuilt =>
        \A t \in Timesteps : \A q \in PointsOf(drv.PP_llr[t]) :
            /\ (~drv.grid_lon[t].nan /\ Len(drv.grid_lon[t].pts) >= 1) =>
                   /\ drv.grid_lon[t].pts[1] <= q.v.lon
                   /\ q.v.lon <= drv.grid_lon[t].pts[Len(drv.grid_lon[t].pts)]
            /\ (~drv.grid_lat[t].nan /\ Len(drv.grid_lat[t].pts) >= 1) =>
                   /\ drv.grid_lat[t].pts[1] <= q.v.lat
                   /\ q.v.lat <= drv.grid_lat[t].pts[Len(drv.grid_lat[t].pts)]

\* every timestep's bounding box of pierce points has zero extent
ZeroExtent ==
    \A t \in Timesteps :
        /\ ~Edges(drv.PP_llr)[t].nan
        /\ Edges(drv.PP_llr)[t].min_lon = Edges(drv.PP_llr)[t].max_lon
        /\ Edges(drv.PP_llr)[t].min_lat = Edges(drv.PP_llr)[t].max_lat

\* C19: when every timestep's bounding box has zero extent the run does
\* not abort.
C19_DegenerateContinues ==
    (GridsBuilt /\ ZeroExtent) => drv.pc # "failed"

\* the term lines 336-337 add to slice i
Diurnal(i) ==
    [modulation |-> daytime_tec_modulation(drv.times[i]),
     maxvtec |-> drv.maxvtec, cos |-> drv.cos_pierce[i]]

\* C20: the returned TEC[i] is the slant-converted screen term of frame i
\* alone when maxvtec <= 0, and that term plus
\* modulation(t_i) * maxvtec / cos_pierce[i], added once, when maxvtec > 0;
\* nothing is added before the loop has ended.
C20_DiurnalOnlyIfRequested ==
    GridsBuilt =>
        \A i \in Timesteps :
            /\ drv.pc # "returned" => drv.TEC[i].added = <<>>
            /\ drv.pc = "returned" =>
                   /\ drv.TEC[i].screen =
                          SlantSlice(drv.frames[i], i, drv.grid_lon[i],
                                     drv.grid_lat[i], drv.PP_llr[i],
                                     drv.cos_pierce[i]).screen
                   /\ drv.TEC[i].cos = drv.cos_pierce[i]
                   /\ drv.maxvtec <= 0 => drv.TEC[i].added = <<>>
                   /\ drv.maxvtec > 0 => drv.TEC[i].added = <<Diurnal(i)>>

\* TEC has been returned with the diurnal term in every slice, and the
\* term differs between the first two timesteps
C20_Witness ==
    /\ drv.pc = "returned"
    /\ drv.maxvtec > 0
    /\ \A i \in Timesteps : Len(drv.TEC[i].added) = 1
    /\ drv.TEC[1].added[1].modulation # drv.TEC[2].added[1].modulation

(***************************************************************************)
(* Properties of the spectrum parameters and of the slide, checked under   *)
(* SpecDriver.                                                             *)
(***************************************************************************)
\* the screen generator has been created
Generating == drv.gen # <<>>

\* C28: the tweeter FFT size handed to the screen generator is even and
\* at least the number of points of the longitude grid and of the latitude
\* grid, and the window handed to it is no longer than the longitude grid.
C28_TweeterSizeEvenAndCovers ==
    Generating =>
        /\ drv.gen.p.nfftTweeter % 2 = 0
        /\ HalfHeightOk(drv.gen.p.nfftTweeter)
        /\ drv.gen.p.nfftTweeter >= Len(drv.grid_lon[1].pts)
        /\ drv.gen.p.nfftTweeter >= Len(drv.grid_lat[1].pts)
        /\ drv.gen.p.shape <= Len(drv.grid_lon[1].pts)

\* a run whose larger grid dimension is odd: the size was rounded up
C28_Witness ==
    /\ Generating
    /\ Max(Len(drv.grid_lon[1].pts), Len(drv.grid_lat[1].pts)) % 2 = 1
    /\ Max(Len(drv.grid_lon[1].pts), Len(drv.grid_lat[1].pts)) >= 3
    /\ drv.pulled >= 1

\* C21: a run configured with alpha <= 2 produces no frame and returns no
\* TEC.
C21_InvalidSpectrumRejected ==
    drv.alpha <= 2 => drv.frames = <<>> /\ drv.pc # "returned"

\* the distance the screen travels in the given number of seconds at vIon,
\* in units of 1/Den pixel; a pixel is hIon * tan(angRes) metres
Travel(vIon, hIon, angRes, seconds) ==
    (vIon * seconds * Den)
        \div (((hIon * Metres) \div Scale) * TanFP(Deg2Rad(angRes)))

\* how far along the ribbon a sampler is from where it started
Displacement(pixels) ==
    pixels.evicted * pixels.xtile + pixels.xoffset + pixels.xmin

\* C30: the slide per frame is the distance travelled at vIon between two
\* consecutive timestamps, and when TEC is returned the tweeter ribbon has
\* been displaced by the distance travelled between the first and the last
\* timestamp (each to within the rounding of one step).
C30_SlideIsVelocityTimesInterval ==
    drv.pc = "returned" =>
        /\ Abs(drv.gen.p.dx
                 - Travel(drv.vIon, drv.hIon, drv.angRes,
                          drv.times[2] - drv.times[1])) <= 1
        /\ Abs(Displacement(drv.gen.outerWindows[1].pixels)
                 - Travel(drv.vIon, drv.hIon, drv.angRes,
                          drv.times[Len(drv.times)] - drv.times[1]))
               <= Len(drv.times)

(***************************************************************************)
(* Properties of the random state and of the nested pipelines of           *)
(* NestedScreen, checked under Spec.                                       *)
(***************************************************************************)
WooferTiles(i) == inst[i].innerWindows.pixels.src
TweeterTiles(i, k) == inst[i].outerWindows[k].pixels.src

\* the noise sample a tile stream holds is the latest of the draws it has
\* made itself from a generator seeded with its own seed: draw number
\* ceil(pulled / 2), each draw giving two tiles
OwnDraw(spline) ==
    spline.src.sample = <<spline.src.seed, CeilDiv(spline.pulled, 2) - 1>>

\* C22: the tiles a tile stream yields are determined by its own seed and
\* parameters only, whatever other streams are pulled between its pulls.
C22_StreamOwnsRandomState ==
    \A i \in Instances :
        HasYielded(i) =>
            /\ OwnDraw(WooferTiles(i))
            /\ \A k \in 1 .. Len(inst[i].outerWindows) : OwnDraw(TweeterTiles(i, k))

\* C23: the seed that replaces seed 0 is drawn when the generator is
\* created, in the random state of that moment, whatever is pulled before
\* the generator's own first pull; a non-zero seed is used as given.
C23_SeedDrawnAtCreation ==
    /\ [](\A i \in Instances :
            (inst[i].p.seed # 0 /\ HasYielded(i)) =>
                /\ inst[i].seed = inst[i].p.seed
                /\ WooferFft(i).seed = inst[i].p.seed)
    /\ [][\A i \in Instances :
            (inst[i].p.seed = 0 /\ inst[i].pc = "start" /\ inst'[i].pc # "start")
                => rng = RngStart]_vars

\* fractionalSupport / (2 * wooferPixelSize) with wooferPixelSize =
\* nfftTweeter / (2 * frequencyOverlap), in units of 1/FreqDen
Nyquist(p) ==
    (p.support[1] * p.twoOverlap * FreqDen) \div (2 * p.nfftTweeter * p.support[2])

\* C24: the spectrum the woofer pipeline's FftScreen filters its noise with
\* is zero at every frequency f >= f0.
C24_WooferBandLimited ==
    \A i \in Instances :
        HasYielded(i) =>
            \A f \in Freqs :
                f >= Nyquist(inst[i].p) => WooferFft(i).spectrum[f] = 0

\* an instance has yielded a frame; the spectrum it was given is non-zero
\* at the crossover and above, and its woofer spectrum is non-zero below
C24_Witness ==
    /\ HasYielded(1)
    /\ inst[1].p.spectrum[Nyquist(inst[1].p)] > 0
    /\ inst[1].p.spectrum[Nyquist(inst[1].p) + 1] > 0
    /\ \E f \in Freqs : f < Nyquist(inst[1].p) /\ WooferFft(1).spectrum[f] > 0

\* what a WindowExtractor yields at its latest advance
Contribution(w) ==
    [buf |-> Interpolate(w.pixels.tiles, w.pixels.x, w.pixels.xoffset).buf,
     at |-> Interpolate(w.pixels.tiles, w.pixels.x, w.pixels.xoffset).at,
     shape |-> w.newshape]

\* C25: when k frames have been yielded the woofer WindowExtractor and
\* every tweeter WindowExtractor (one per window origin) have been advanced
\* exactly k times, and the latest frame is made of what the woofer and
\* each tweeter yielded at that k-th advance.
C25_OneAdvancePerFrame ==
    \A i \in Instances :
        inst[i].pc \in {"yielded", "done"} =>
            /\ inst[i].innerWindows.pixels.yielded = Len(out[i])
            /\ Len(inst[i].outerWindows) = Len(inst[i].p.origins)
            /\ \A k \in 1 .. Len(inst[i].outerWindows) :
                   inst[i].outerWindows[k].pixels.yielded = Len(out[i])
            /\ Len(out[i]) >= 1 =>
                   /\ out[i][Len(out[i])].inner = Contribution(inst[i].innerWindows)
                   /\ out[i][Len(out[i])].outer =
                          [k \in 1 .. Len(inst[i].outerWindows) |->
                              Contribution(inst[i].outerWindows[k])]

\* an instance with two windows has yielded three frames that differ, and
\* its two tweeter pipelines are at different coordinates
C25_Witness ==
    /\ HasYielded(1) /\ Len(out[1]) = 3
    /\ Len(inst[1].outerWindows) = 2
    /\ out[1][1] # out[1][2] /\ out[1][2] # out[1][3]
    /\ out[1][3].outer[1] # out[1][3].outer[2]

\* the stitched tiles in the ribbon buffer of window k's tweeter pipeline,
\* each named by the noise tiles it was blended from
TweeterBuffer(i, k) ==
    {inst[i].outerWindows[k].pixels.tiles[n].id :
        n \in 1 .. Len(inst[i].outerWindows[k].pixels.tiles)}

\* C27: with a non-zero seed and more than one window origin, the ribbon
\* buffers of two windows' tweeter pipelines have no tile in common.
C27_TweetersDrawApart ==
    \A i \in Instances :
        (HasYielded(i) /\ inst[i].p.seed # 0) =>
            \A j, k \in 1 .. Len(inst[i].outerWindows) :
                j # k => TweeterBuffer(i, j) \cap TweeterBuffer(i, k) = {}

(***************************************************************************)
(* Further properties of SlidingPixels (RibbonSampler), checked under      *)
(* SpecSampler.                                                            *)
(***************************************************************************)
\* C26: for 0 < dx <= tileHeight, at every yield every queried coordinate
\* lies between row 0 and the last buffered row,
\* tileHeight * (number of buffered tiles) - 1.
C26_QueriesInsideRows ==
    (SamplerYielded /\ 0 < sp.gen.dx /\ sp.gen.dx <= sp.h * Den) =>
        \A xj \in sp.gen.x :
            /\ xj + sp.gen.xoffset >= 0
            /\ xj + sp.gen.xoffset <= (sp.h * Len(sp.gen.tiles) - 1) * Den

\* C29: with dx > tileHeight the generator fails at its first pull and
\* yields nothing; with dx <= tileHeight it does not fail.
C29_StepLargerThanTileRefused ==
    sp.pc = "run" =>
        /\ sp.gen.dx > sp.h * Den =>
               /\ sp.arrays = <<>>
               /\ sp.gen.yielded = 0
               /\ sp.gen.pc \in {"start", "failed"}
               /\ sp.gen.pc = "failed" => sp.gen.pulled = 1
        /\ sp.gen.dx <= sp.h * Den => sp.gen.pc # "failed"

\* a generator whose step is half a pixel more than the tile height has
\* failed at its first pull
C29_Witness ==
    /\ sp.pc = "run"
    /\ sp.gen.dx = sp.h * Den + 1
    /\ sp.gen.pc = "failed" /\ sp.gen.pulled = 1 /\ sp.arrays = <<>>

====
